---- MODULE Spec2Model ----
\* UMMAP_MRI_Sync_To_Box: the DirEntryNode tree (build, prune) and its
\* reconciliation against a Box folder (sync_tree_object_items), as driven by
\* main() of ummap_mri_sync_to_box.py.
EXTENDS Integers, Sequences, FiniteSets, TLC

VARIABLES
    local,         \* the local filesystem below the MRI root (os.scandir / os.listdir / stat / dcmread)
    remote,        \* the Box folder tree below the destination folder
    nodes,         \* the DirEntryNode objects, keyed by the path of their dir_entry
    pc,            \* position of the run: "start", "built", "pruned", "synced", "error"
    err,           \* the exception that ended the run, or "none"
    logs,          \* one sequence of remote calls per completed or aborted reconcile run
    clock,         \* the Box server's clock, which stamps modified_at on upload / update_contents
    update_files,  \* args.update_files
    remove_items,  \* args.remove_items
    rgx_file,      \* the file-name pattern handed to build_tree_from_node
    fail,          \* the remote call that fails in this execution, or NoFail
    is_verbose,    \* args.verbose
    out,           \* the lines printed to stdout so far
    tested         \* the folder nodes prune has searched, in the order of its calls

vars == <<local, remote, nodes, pc, err, logs, clock, update_files, remove_items, rgx_file, fail,
          is_verbose, out, tested>>

-----------------------------------------------------------------------------
\* Bounds of the model

MaxDepth == 2        \* folders nest at most this deep below the root
MaxLocal == 3        \* local entries (folders and files) of a filesystem synced to an empty Box
MaxRemote == 2       \* entries on either side when Box holds a tree of its own
MaxTime == 2         \* timestamps range over 1..MaxTime
MaxRuns == 2         \* reconcile runs in one behaviour

-----------------------------------------------------------------------------
\* Names and the patterns matched against them

Root == <<>>
RootName == "MRI"

\* os.scandir order of the entries of one directory
ScanOrder == <<"dicom", "s00001", "junk", "i1.MRDC.1", "i2.MRDC.2", "x.dat">>

FolderNames == {"dicom", "s00001"}
JunkFolder == "junk"
DicomFileNames == {"i1.MRDC.1", "i2.MRDC.2"}
OtherFile == "x.dat"

\* SeriesDescription values of readable DICOM datasets
SeriesDescriptions == {"t1sag_208", "localizer"}

\* r'^s\d{5}$'
rgx_study(name) == name \in {"s00001"}

\* r'^hlp17umm\d{5}_\d{5}$|^dicom$|^s\d{5}$'
rgx_subfolder(name) == name \in {"dicom", "s00001"}

\* r'^i\d+\.MRDC\.\d+$'
rgx_dicom(name) == name \in {"i1.MRDC.1", "i2.MRDC.2"}

\* r'^t1sag.*$|^t2flairsag.*$'
rgx_sequence(descrip) == descrip \in {"t1sag_208"}

\* the file pattern of a build: main's rgx_subfile, or a pattern matching every name
FilePatterns == {"mrdc", "any"}
MatchFile(rgx, name) == IF rgx = "mrdc" THEN rgx_dicom(name) ELSE TRUE

StudyItemLimit == 250

-----------------------------------------------------------------------------
\* Paths

Parent(p) == SubSeq(p, 1, Len(p) - 1)
Last(p) == p[Len(p)]
EntryName(p) == IF p = Root THEN RootName ELSE Last(p)
IsPrefix(p, q) == Len(p) <= Len(q) /\ SubSeq(q, 1, Len(p)) = p

Ordered(S) == SelectSeq(ScanOrder, LAMBDA n : n \in S)
Range(s) == {s[i] : i \in 1..Len(s)}

\* os.DirEntry.is_dir / is_file
is_dir(p) == p = Root \/ p \in local.dirs
is_file(p) == p \in DOMAIN local.files

\* list(os.scandir(dir_entry)): the entries of directory p, in scan order
scandir(p) ==
    LET names == {Last(q) : q \in {q \in local.dirs \cup DOMAIN local.files : Parent(q) = p}}
    IN  [i \in 1..Len(Ordered(names)) |-> Append(p, Ordered(names)[i])]

\* len(os.listdir(path)): every entry counts, also the ones no pattern matches
item_count(p) == Len(scandir(p)) + local.extra

-----------------------------------------------------------------------------
\* DirEntryNode

DirEntryNode(depth) ==
    [depth |-> depth, child_dir_entry_node_folders |-> <<>>, child_dir_entry_node_files |-> <<>>]

add_child(ns, p, c) ==
    LET n1 == IF is_dir(c)
              THEN [ns EXCEPT ![p].child_dir_entry_node_folders = Append(@, c)]
              ELSE ns
    IN  IF is_file(c)
        THEN [n1 EXCEPT ![p].child_dir_entry_node_files = Append(@, c)]
        ELSE n1

\* remove_child with the filter of its list comprehensions inverted
remove_child_Inverted(ns, p, c) ==
    IF is_dir(c)
    THEN [ns EXCEPT ![p].child_dir_entry_node_folders = SelectSeq(@, LAMBDA child : child = c)]
    ELSE IF is_file(c)
    THEN [ns EXCEPT ![p].child_dir_entry_node_files = SelectSeq(@, LAMBDA child : child = c)]
    ELSE ns

remove_child(ns, p, c) ==
    IF is_dir(c)
    THEN [ns EXCEPT ![p].child_dir_entry_node_folders = SelectSeq(@, LAMBDA child : child # c)]
    ELSE IF is_file(c)
    THEN [ns EXCEPT ![p].child_dir_entry_node_files = SelectSeq(@, LAMBDA child : child # c)]
    ELSE ns

\* the nodes reachable from the root through the child lists
RECURSIVE Reachable(_, _)
Reachable(ns, p) ==
    {p} \cup Range(ns[p].child_dir_entry_node_files)
        \cup UNION {Reachable(ns, c) : c \in Range(ns[p].child_dir_entry_node_folders)}

FolderNodes(ns) == {p \in Reachable(ns, Root) : is_dir(p)}
FileNodes(ns) == {p \in Reachable(ns, Root) : is_file(p)}
ChildNames(children) == {Last(c) : c \in Range(children)}

-----------------------------------------------------------------------------
\* Tree Builder

\* the guard with <= in place of <
ScansEntries_Inclusive(p) ==
    IF ~rgx_study(EntryName(p)) THEN TRUE ELSE item_count(p) <= StudyItemLimit

\* the study-directory guard: scan unless the name is a study name with 250 items or more
ScansEntries(p) ==
    IF ~rgx_study(EntryName(p)) THEN TRUE ELSE item_count(p) < StudyItemLimit

RECURSIVE build_tree_from_node(_, _, _)
RECURSIVE BuildFolders(_, _, _, _)

\* the file nodes created at the depth of their parent
RECURSIVE BuildFiles_SameDepth(_, _, _)
BuildFiles_SameDepth(ns, p, files) ==
    IF files = <<>> THEN ns
    ELSE LET f == Head(files)
             n1 == (f :> DirEntryNode(ns[p].depth)) @@ ns
         IN  BuildFiles_SameDepth(add_child(n1, p, f), p, Tail(files))

\* for dir_entry_file in dir_entry_files: add_child(DirEntryNode(dir_entry_file, depth + 1))
RECURSIVE BuildFiles(_, _, _)
BuildFiles(ns, p, files) ==
    IF files = <<>> THEN ns
    ELSE LET f == Head(files)
             n1 == (f :> DirEntryNode(ns[p].depth + 1)) @@ ns
         IN  BuildFiles(add_child(n1, p, f), p, Tail(files))

\* for dir_entry_folder in dir_entry_folders: new node, add_child, recurse
BuildFolders(ns, p, folders, rf) ==
    IF folders = <<>> THEN ns
    ELSE LET d == Head(folders)
             n1 == (d :> DirEntryNode(ns[p].depth + 1)) @@ ns
             n2 == add_child(n1, p, d)
         IN  BuildFolders(build_tree_from_node(n2, d, rf), p, Tail(folders), rf)

build_tree_from_node(ns, p, rf) ==
    IF ScansEntries(p)
    THEN LET dir_entries == scandir(p)
             dir_entry_folders ==
                 SelectSeq(dir_entries, LAMBDA e : is_dir(e) /\ rgx_subfolder(Last(e)))
             dir_entry_files ==
                 SelectSeq(dir_entries, LAMBDA e : is_file(e) /\ MatchFile(rf, Last(e)))
         IN  BuildFiles(BuildFolders(ns, p, dir_entry_folders, rf), p, dir_entry_files)
    ELSE ns

-----------------------------------------------------------------------------
\* DICOM handler and Pruning Filter

\* pydicom.Dataset(): a dataset without any attribute
EmptyDataset == [attr \in {} |-> ""]

\* pydicom.dcmread for a name matching rgx_dicom, the empty Dataset() otherwise
get_local_dicom_dataset(f) ==
    IF rgx_dicom(Last(f))
    THEN [SeriesDescription |-> local.files[f].descrip]
    ELSE EmptyDataset

Found(b) == [found |-> b, err |-> "none"]
Raised(e) == [found |-> FALSE, err |-> e]

\* the loop over child_dir_entry_node_files of the search; reading SeriesDescription
\* of a dataset that has no such attribute raises AttributeError
RECURSIVE SearchFiles(_, _)
SearchFiles(files, found_series_descrip) ==
    IF files = <<>> THEN Found(found_series_descrip)
    ELSE LET dir_entry_node_dicom_dataset == get_local_dicom_dataset(Head(files))
         IN  IF "SeriesDescription" \notin DOMAIN dir_entry_node_dicom_dataset
             THEN Raised("AttributeError")
             ELSE IF rgx_sequence(dir_entry_node_dicom_dataset.SeriesDescription)
             THEN Found(TRUE)
             ELSE SearchFiles(Tail(files), found_series_descrip)

RECURSIVE search_at_or_below_for_dicom_dataset_series_descrip(_, _)
RECURSIVE SearchFolders(_, _, _)
SearchFolders(ns, folders, found_series_descrip) ==
    IF folders = <<>> THEN Found(found_series_descrip)
    ELSE LET r == search_at_or_below_for_dicom_dataset_series_descrip(ns, Head(folders))
         IN  IF r.err # "none" THEN r
             ELSE IF found_series_descrip \/ r.found THEN Found(TRUE)
             ELSE SearchFolders(ns, Tail(folders), found_series_descrip \/ r.found)

search_at_or_below_for_dicom_dataset_series_descrip(ns, p) ==
    LET r == SearchFolders(ns, ns[p].child_dir_entry_node_folders, FALSE)
    IN  IF r.err # "none" \/ r.found THEN r
        ELSE SearchFiles(ns[p].child_dir_entry_node_files, r.found)

RECURSIVE prune_nodes_without_dicom_dataset_series_descrip(_, _)
\* the loop of prune with the removal of the else branch left out
RECURSIVE PruneFolders_NoRemove(_, _, _)
PruneFolders_NoRemove(ns, p, folders) ==
    IF folders = <<>> THEN [nodes |-> ns, err |-> "none", tested |-> <<>>]
    ELSE LET c == Head(folders)
             r == search_at_or_below_for_dicom_dataset_series_descrip(ns, c)
         IN  IF r.err # "none" THEN [nodes |-> ns, err |-> r.err, tested |-> <<c>>]
             ELSE IF r.found
             THEN LET below == prune_nodes_without_dicom_dataset_series_descrip(ns, c)
                  IN  IF below.err # "none" THEN [below EXCEPT !.tested = <<c>> \o @]
                      ELSE LET rest == PruneFolders_NoRemove(below.nodes, p, Tail(folders))
                           IN  [rest EXCEPT !.tested = <<c>> \o below.tested \o @]
             ELSE LET rest == PruneFolders_NoRemove(ns, p, Tail(folders))
                  IN  [rest EXCEPT !.tested = <<c>> \o @]

\* prune looping over the list remove_child shortens: the removal of a child moves
\* the sibling after it into the place the loop has just left
RECURSIVE PruneFolders_LiveList(_, _, _)
PruneFolders_LiveList(ns, p, folders) ==
    IF folders = <<>> THEN [nodes |-> ns, err |-> "none", tested |-> <<>>]
    ELSE LET c == Head(folders)
             r == search_at_or_below_for_dicom_dataset_series_descrip(ns, c)
         IN  IF r.err # "none" THEN [nodes |-> ns, err |-> r.err, tested |-> <<c>>]
             ELSE IF r.found
             THEN LET below == prune_nodes_without_dicom_dataset_series_descrip(ns, c)
                  IN  IF below.err # "none" THEN [below EXCEPT !.tested = <<c>> \o @]
                      ELSE LET rest == PruneFolders_LiveList(below.nodes, p, Tail(folders))
                           IN  [rest EXCEPT !.tested = <<c>> \o below.tested \o @]
             ELSE LET rest == PruneFolders_LiveList(
                                  remove_child(ns, p, c), p,
                                  IF Len(folders) > 1 THEN Tail(Tail(folders)) ELSE <<>>)
                  IN  [rest EXCEPT !.tested = <<c>> \o @]

\* the for loop of prune: it iterates the list object bound when the loop started,
\* remove_child rebinds the attribute to a new list
RECURSIVE PruneFolders(_, _, _)
PruneFolders(ns, p, folders) ==
    IF folders = <<>> THEN [nodes |-> ns, err |-> "none", tested |-> <<>>]
    ELSE LET c == Head(folders)
             r == search_at_or_below_for_dicom_dataset_series_descrip(ns, c)
         IN  IF r.err # "none" THEN [nodes |-> ns, err |-> r.err, tested |-> <<c>>]
             ELSE IF r.found
             THEN LET below == prune_nodes_without_dicom_dataset_series_descrip(ns, c)
                  IN  IF below.err # "none" THEN [below EXCEPT !.tested = <<c>> \o @]
                      ELSE LET rest == PruneFolders(below.nodes, p, Tail(folders))
                           IN  [rest EXCEPT !.tested = <<c>> \o below.tested \o @]
             ELSE LET rest == PruneFolders(remove_child(ns, p, c), p, Tail(folders))
                  IN  [rest EXCEPT !.tested = <<c>> \o @]

\* prune as its docstring has it: the file nodes whose own description does not
\* match are taken out as well
prune_nodes_without_dicom_dataset_series_descrip_Files(ns, p) ==
    PruneFolders([ns EXCEPT ![p].child_dir_entry_node_files =
                                SelectSeq(@, LAMBDA f : rgx_dicom(Last(f))
                                                        /\ rgx_sequence(local.files[f].descrip))],
                 p, ns[p].child_dir_entry_node_folders)

prune_nodes_without_dicom_dataset_series_descrip(ns, p) ==
    PruneFolders(ns, p, ns[p].child_dir_entry_node_folders)

-----------------------------------------------------------------------------
\* Box: the remote folder tree and the calls made on it

\* what get_corresponding_box_subfolder / _subfile return when no name matches
None == <<"None">>

NoFail == [op |-> "none", path |-> Root, mode |-> "none"]
Fails(op, path) == fail.op = op /\ fail.path = path

Call(op, via, path, ok) ==
    [op |-> op, via |-> via, path |-> path, ok |-> ok, folders |-> {}, files |-> {}]

Logged(st, entry) == [st EXCEPT !.log = Append(@, entry)]

\* print_subitem_action and the "Removed Box sub..." prints: the action, the name of
\* the Box item and its id (a Box item is identified by its path here)
Report(action, path) ==
    [kind |-> "report", text |-> action, name |-> Last(path), id |-> path, n |-> 0]

\* the prints without their "if is_verbose"
Printed_Always(st, line) == [st EXCEPT !.out = Append(@, line)]

\* the print follows "if is_verbose"
Printed(st, line) == IF is_verbose THEN [st EXCEPT !.out = Append(@, line)] ELSE st
Raise(st, e) == [st EXCEPT !.err = e]

SubfolderNames(rem, bp) == {Last(q) : q \in {q \in rem.folders : Parent(q) = bp}}
SubfileNames(rem, bp) == {Last(q) : q \in {q \in DOMAIN rem.files : Parent(q) = bp}}

\* get_box_subfolders(get_box_subitems(box_folder)): the items of type "folder"
get_box_subfolders(rem, bp) ==
    LET names == Ordered(SubfolderNames(rem, bp))
    IN  [i \in 1..Len(names) |-> Append(bp, names[i])]

\* get_box_subfiles(get_box_subitems(box_folder)): the items of type "file"
get_box_subfiles(rem, bp) ==
    LET names == Ordered(SubfileNames(rem, bp))
    IN  [i \in 1..Len(names) |-> Append(bp, names[i])]

\* get_box_subitems with the exception of a failed listing swallowed
get_box_subitems_Swallow(st, bp, via) ==
    IF bp = None THEN Raise(st, "AttributeError")
    ELSE IF Fails("get_items", bp)
    THEN Logged(st, Call("get_items", via, bp, FALSE))
    ELSE Logged(st, [Call("get_items", via, bp, TRUE) EXCEPT
                        !.folders = SubfolderNames(st.remote, bp),
                        !.files = {<<n, st.remote.files[Append(bp, n)]>> :
                                      n \in SubfileNames(st.remote, bp)}])

\* box_folder.get_items(fields): one listing call; on None it is an AttributeError
get_box_subitems(st, bp, via) ==
    IF bp = None THEN Raise(st, "AttributeError")
    ELSE IF Fails("get_items", bp)
    THEN Raise(Logged(st, Call("get_items", via, bp, FALSE)), "BoxAPIException")
    ELSE Logged(st, [Call("get_items", via, bp, TRUE) EXCEPT
                        !.folders = SubfolderNames(st.remote, bp),
                        !.files = {<<n, st.remote.files[Append(bp, n)]>> :
                                      n \in SubfileNames(st.remote, bp)}])

get_corresponding_box_subfolder(rem, local_subfolder, bp) ==
    IF Last(local_subfolder) \in SubfolderNames(rem, bp) /\ is_dir(local_subfolder)
    THEN Append(bp, Last(local_subfolder))
    ELSE None

get_corresponding_box_subfile(rem, local_subfile, bp) ==
    IF Last(local_subfile) \in SubfileNames(rem, bp) /\ is_file(local_subfile)
    THEN Append(bp, Last(local_subfile))
    ELSE None

\* Folder.delete(recursive=True) / File.delete() on the server
Deleted(rem, q) ==
    [folders |-> {d \in rem.folders : ~IsPrefix(q, d)},
     files |-> [f \in {f \in DOMAIN rem.files : ~IsPrefix(q, f)} |-> rem.files[f]]]

\* Folder.create_subfolder on the server
WithFolder(rem, q) == [rem EXCEPT !.folders = @ \cup {q}]

\* Folder.upload / File.update_contents on the server: modified_at is the server's time
WithFile(rem, q, t) ==
    [rem EXCEPT !.files = [f \in DOMAIN @ \cup {q} |-> IF f = q THEN t ELSE @[f]]]

-----------------------------------------------------------------------------
\* Reconciler (DirEntryNode.sync_tree_object_items and its helper methods)

\* the removal filter without its condition
NotInTreeobj_All(box_items, names) == box_items

\* [... for box_subitem in box_subitems if box_subitem.name not in <node child names>]
NotInTreeobj(box_items, names) == SelectSeq(box_items, LAMBDA b : Last(b) \notin names)

\* the creation filter without its condition
NotInBox_All(children, box_names) == children

\* [... for child in <node children> if child.dir_entry.name not in <box names>]
NotInBox(children, box_names) == SelectSeq(children, LAMBDA c : Last(c) \notin box_names)

\* the "present in Box" filter without its condition
InBox_All(children, box_names) == children

\* [... for child in <node children> if child.dir_entry.name in <box names>]
InBox(children, box_names) == SelectSeq(children, LAMBDA c : Last(c) \in box_names)

\* the comparison with >= in place of >
LocalIsNewer_OrEqual(local_modified, box_modified) == local_modified >= box_modified

\* den_file_de_modified_dt > corres_box_subfile_modified_dt
LocalIsNewer(local_modified, box_modified) == local_modified > box_modified

\* the recursive call made without its update_files argument (the default is False)
RecurseUpdateFiles_Default(uf) == FALSE

\* the update_files argument of the recursive sync_tree_object_items calls
RecurseUpdateFiles(uf) == uf

\* for box_subitem in <items in box not in treeobj>: box_subitem.delete(...)
\* delete returns a boolean; a false result only suppresses the print
RECURSIVE DeleteItems(_, _, _)
DeleteItems(st, op, targets) ==
    IF st.err # "none" \/ targets = <<>> THEN st
    ELSE LET b == Head(targets)
         IN  IF Fails(op, b) /\ fail.mode = "raise"
             THEN Raise(Logged(st, Call(op, "", b, FALSE)), "BoxAPIException")
             ELSE IF Fails(op, b)
             THEN DeleteItems(Logged(st, Call(op, "", b, FALSE)), op, Tail(targets))
             ELSE DeleteItems(
                      Printed([Logged(st, Call(op, "", b, TRUE)) EXCEPT !.remote = Deleted(@, b)],
                              Report("Removed", b)),
                      op, Tail(targets))

remove_box_subfolders(st, p, box_subfolders) ==
    LET dir_entry_node_subfolder_names == ChildNames(nodes[p].child_dir_entry_node_folders)
    IN  DeleteItems(st, "delete_folder",
                    NotInTreeobj(box_subfolders, dir_entry_node_subfolder_names))

\* sync_tree_object_items without the removal of files
remove_box_subfiles_Skip(st, p, box_subfiles) == st

remove_box_subfiles(st, p, box_subfiles) ==
    LET dir_entry_node_subfile_names == ChildNames(nodes[p].child_dir_entry_node_files)
    IN  DeleteItems(st, "delete_file",
                    NotInTreeobj(box_subfiles, dir_entry_node_subfile_names))

RECURSIVE sync_tree_object_items(_, _, _, _)

\* for dir_entry_node_folder in subfolders_in_treeobj_not_in_box: create, then sync it
RECURSIVE CreateAndSync(_, _, _, _)
CreateAndSync(st, bp, folders, uf) ==
    IF st.err # "none" \/ folders = <<>> THEN st
    ELSE LET c == Head(folders)
             box_subfolder == Append(bp, Last(c))
         IN  IF Fails("create_subfolder", box_subfolder)
             THEN Raise(Logged(st, Call("create_subfolder", "", box_subfolder, FALSE)),
                        "BoxAPIException")
             ELSE LET created ==
                          Printed([Logged(st, Call("create_subfolder", "", box_subfolder, TRUE))
                                      EXCEPT !.remote = WithFolder(@, box_subfolder)],
                                  Report("Creating", box_subfolder))
                  IN  CreateAndSync(
                          sync_tree_object_items(created, c, box_subfolder, RecurseUpdateFiles(uf)),
                          bp, Tail(folders), uf)

\* the loop over the folders present in Box, resolving without a listing call
RECURSIVE ResolveAndSync_NoListing(_, _, _, _)
ResolveAndSync_NoListing(st, bp, folders, uf) ==
    IF st.err # "none" \/ folders = <<>> THEN st
    ELSE LET c == Head(folders)
             box_subfolder == get_corresponding_box_subfolder(st.remote, c, bp)
         IN  ResolveAndSync_NoListing(
                 sync_tree_object_items(st, c, box_subfolder, RecurseUpdateFiles(uf)),
                 bp, Tail(folders), uf)

\* for dir_entry_node_folder in subfolders_in_treeobj_in_box: resolve by name, then sync it
RECURSIVE ResolveAndSync(_, _, _, _)
ResolveAndSync(st, bp, folders, uf) ==
    IF st.err # "none" \/ folders = <<>> THEN st
    ELSE LET c == Head(folders)
             listed == get_box_subitems(st, bp, "get_corresponding_box_subfolder")
             box_subfolder == get_corresponding_box_subfolder(st.remote, c, bp)
         IN  ResolveAndSync(
                 sync_tree_object_items(listed, c, box_subfolder, RecurseUpdateFiles(uf)),
                 bp, Tail(folders), uf)

create_box_subfolders(st, p, bp, box_subfolders, uf) ==
    LET box_subfolder_names == ChildNames(box_subfolders)
        subfolders_in_treeobj_not_in_box ==
            NotInBox(nodes[p].child_dir_entry_node_folders, box_subfolder_names)
        subfolders_in_treeobj_in_box ==
            InBox(nodes[p].child_dir_entry_node_folders, box_subfolder_names)
    IN  ResolveAndSync(CreateAndSync(st, bp, subfolders_in_treeobj_not_in_box, uf),
                       bp, subfolders_in_treeobj_in_box, uf)

\* for dir_entry_node_file in subfiles_in_treeobj_not_in_box: box_folder.upload(...)
RECURSIVE UploadFiles(_, _, _)
UploadFiles(st, bp, files) ==
    IF st.err # "none" \/ files = <<>> THEN st
    ELSE LET box_subfile == Append(bp, Last(Head(files)))
         IN  IF Fails("upload", box_subfile)
             THEN Raise(Logged(st, Call("upload", "", box_subfile, FALSE)), "BoxAPIException")
             ELSE UploadFiles(
                      Printed([Logged(st, Call("upload", "", box_subfile, TRUE))
                                  EXCEPT !.remote = WithFile(@, box_subfile, clock)],
                              Report("Creating", box_subfile)),
                      bp, Tail(files))

\* the upload filter with "in" in place of "not in"
create_box_subfiles_Inverted(st, p, bp, box_subfiles) ==
    LET box_subfile_names == ChildNames(box_subfiles)
    IN  UploadFiles(st, bp, InBox(nodes[p].child_dir_entry_node_files, box_subfile_names))

create_box_subfiles(st, p, bp, box_subfiles) ==
    LET box_subfile_names == ChildNames(box_subfiles)
    IN  UploadFiles(st, bp, NotInBox(nodes[p].child_dir_entry_node_files, box_subfile_names))

\* for dir_entry_node_file in subfiles_in_treeobj_in_box: resolve, compare, update
RECURSIVE UpdateFiles(_, _, _)
UpdateFiles(st, bp, files) ==
    IF st.err # "none" \/ files = <<>> THEN st
    ELSE LET f == Head(files)
             listed == get_box_subitems(st, bp, "get_corresponding_box_subfile")
             corres_box_subfile == get_corresponding_box_subfile(st.remote, f, bp)
         IN  IF listed.err # "none" THEN listed
             ELSE IF corres_box_subfile = None THEN Raise(listed, "AttributeError")
             ELSE IF ~LocalIsNewer(local.files[f].mtime, st.remote.files[corres_box_subfile])
             THEN UpdateFiles(listed, bp, Tail(files))
             ELSE IF Fails("update_contents", corres_box_subfile)
             THEN Raise(Logged(listed, Call("update_contents", "", corres_box_subfile, FALSE)),
                        "BoxAPIException")
             ELSE UpdateFiles(
                      Printed([Logged(listed, Call("update_contents", "", corres_box_subfile, TRUE))
                                  EXCEPT !.remote = WithFile(@, corres_box_subfile, clock)],
                              Report("Updating", corres_box_subfile)),
                      bp, Tail(files))

\* the update pass going by a listing taken when it starts, after the creation pass
update_box_subfiles_Relisted(st, p, bp, box_subfiles) ==
    LET box_subfile_names == SubfileNames(st.remote, bp)
    IN  UpdateFiles(st, bp, InBox(nodes[p].child_dir_entry_node_files, box_subfile_names))

update_box_subfiles(st, p, bp, box_subfiles) ==
    LET box_subfile_names == ChildNames(box_subfiles)
    IN  UpdateFiles(st, bp, InBox(nodes[p].child_dir_entry_node_files, box_subfile_names))

\* sync_tree_object_items with the two removal passes after the creation passes
sync_tree_object_items_RemoveLast(st, p, bp, uf) ==
    IF st.err # "none" THEN st
    ELSE LET listed == get_box_subitems(st, bp, "sync_tree_object_items")
         IN  IF listed.err # "none" THEN listed
             ELSE LET box_subfolders == get_box_subfolders(st.remote, bp)
                      box_subfiles == get_box_subfiles(st.remote, bp)
                      s1 == create_box_subfolders(listed, p, bp, box_subfolders, uf)
                      s2 == create_box_subfiles(s1, p, bp, box_subfiles)
                      s3 == remove_box_subfolders(s2, p, box_subfolders)
                      s4 == remove_box_subfiles(s3, p, box_subfiles)
                  IN  IF uf THEN update_box_subfiles(s4, p, bp, box_subfiles) ELSE s4

\* sync_tree_object_items with the file creation pass ahead of the folder creation pass
sync_tree_object_items_FilesFirst(st, p, bp, uf) ==
    IF st.err # "none" THEN st
    ELSE LET listed == get_box_subitems(st, bp, "sync_tree_object_items")
         IN  IF listed.err # "none" THEN listed
             ELSE LET box_subfolders == get_box_subfolders(st.remote, bp)
                      box_subfiles == get_box_subfiles(st.remote, bp)
                      s1 == remove_box_subfolders(listed, p, box_subfolders)
                      s2 == remove_box_subfiles(s1, p, box_subfiles)
                      s3 == create_box_subfiles(s2, p, bp, box_subfiles)
                      s4 == create_box_subfolders(s3, p, bp, box_subfolders, uf)
                  IN  IF uf THEN update_box_subfiles(s4, p, bp, box_subfiles) ELSE s4

sync_tree_object_items(st, p, bp, uf) ==
    IF st.err # "none" THEN st
    ELSE LET listed == get_box_subitems(st, bp, "sync_tree_object_items")
         IN  IF listed.err # "none" THEN listed
             ELSE LET box_subfolders == get_box_subfolders(st.remote, bp)
                      box_subfiles == get_box_subfiles(st.remote, bp)
                      s1 == remove_box_subfolders(listed, p, box_subfolders)
                      s2 == remove_box_subfiles(s1, p, box_subfiles)
                      s3 == create_box_subfolders(s2, p, bp, box_subfolders, uf)
                      s4 == create_box_subfiles(s3, p, bp, box_subfiles)
                  IN  IF uf THEN update_box_subfiles(s4, p, bp, box_subfiles) ELSE s4

-----------------------------------------------------------------------------
-----------------------------------------------------------------------------
\* The earlier revision (ummap_mri_sync_to_box_helpers.walk_local_dir_tree_sync_contents):
\* it walks the filesystem itself, level by level, with the patterns of the build

\* the prints of the walker and its helpers
WalkLine(text, path, n) ==
    [kind |-> "walker", text |-> text, name |-> IF path = Root THEN "" ELSE Last(path),
     id |-> path, n |-> n]

get_local_subitems(local_folder) == scandir(local_folder)

\* get_local_subfolders called without a pattern: every directory
get_local_subfolders_NoFilter(local_subitems) ==
    SelectSeq(local_subitems, LAMBDA local_subitem : is_dir(local_subitem))

\* filter(is_dir and re.match(regex_subfolder, name))
get_local_subfolders(local_subitems) ==
    SelectSeq(local_subitems,
              LAMBDA local_subitem : is_dir(local_subitem) /\ rgx_subfolder(Last(local_subitem)))

\* filter(is_file and re.match(regex_subfile, name))
get_local_subfiles(local_subitems, regex_subfile) ==
    SelectSeq(local_subitems,
              LAMBDA local_subitem : is_file(local_subitem)
                                     /\ MatchFile(regex_subfile, Last(local_subitem)))

\* the number of ids a helper returns: its successful calls of kind op, which are the
\* ones the log gained between two points of a level
IdsSince(before, after, op) ==
    Len(SelectSeq(SubSeq(after.log, Len(before.log) + 1, Len(after.log)),
                  LAMBDA e : e.op = op /\ e.ok))

\* for box_sub... in <not in local, in box>: delete; a false result is left out of the ids
RECURSIVE DeleteNotFound(_, _, _)
DeleteNotFound(st, op, targets) ==
    IF st.err # "none" \/ targets = <<>> THEN st
    ELSE LET b == Head(targets)
         IN  IF Fails(op, b) /\ fail.mode = "raise"
             THEN Raise(Logged(st, Call(op, "walk", b, FALSE)), "BoxAPIException")
             ELSE IF Fails(op, b)
             THEN DeleteNotFound(Logged(st, Call(op, "walk", b, FALSE)), op, Tail(targets))
             ELSE DeleteNotFound(
                      Printed([Logged(st, Call(op, "walk", b, TRUE)) EXCEPT !.remote = Deleted(@, b)],
                              WalkLine(IF op = "delete_folder" THEN "Deleted subFolder"
                                       ELSE "Deleted subFile", b, 0)),
                      op, Tail(targets))

delete_box_subfolders_not_found_in_local(st, local_subfolders, box_subfolders) ==
    LET local_subfolders_names == ChildNames(local_subfolders)
    IN  DeleteNotFound(st, "delete_folder",
                       SelectSeq(box_subfolders, LAMBDA b : Last(b) \notin local_subfolders_names))

\* for local_subfolder in <in local, not in box>: box_folder.create_subfolder(name)
RECURSIVE CreateFound(_, _, _)
CreateFound(st, bp, folders) ==
    IF st.err # "none" \/ folders = <<>> THEN st
    ELSE LET box_subfolder == Append(bp, Last(Head(folders)))
         IN  IF Fails("create_subfolder", box_subfolder)
             THEN Raise(Logged(st, Call("create_subfolder", "walk", box_subfolder, FALSE)),
                        "BoxAPIException")
             ELSE CreateFound(
                      Printed([Logged(st, Call("create_subfolder", "walk", box_subfolder, TRUE))
                                  EXCEPT !.remote = WithFolder(@, box_subfolder)],
                              WalkLine("Created subFolder", box_subfolder, 0)),
                      bp, Tail(folders))

create_box_subfolders_found_in_local(st, local_subfolders, bp, box_subfolders) ==
    LET box_subfolders_names == ChildNames(box_subfolders)
    IN  CreateFound(st, bp,
                    SelectSeq(local_subfolders, LAMBDA l : Last(l) \notin box_subfolders_names))

delete_box_subfiles_not_found_in_local(st, local_subfiles, box_subfiles) ==
    LET local_subfiles_names == ChildNames(local_subfiles)
    IN  DeleteNotFound(st, "delete_file",
                       SelectSeq(box_subfiles, LAMBDA b : Last(b) \notin local_subfiles_names))

\* for local_subfile in <in local, not in box>: box_folder.upload(path)
RECURSIVE UploadFound(_, _, _)
UploadFound(st, bp, files) ==
    IF st.err # "none" \/ files = <<>> THEN st
    ELSE LET box_subfile == Append(bp, Last(Head(files)))
         IN  IF Fails("upload", box_subfile)
             THEN Raise(Logged(st, Call("upload", "walk", box_subfile, FALSE)), "BoxAPIException")
             ELSE UploadFound(
                      Printed([Logged(st, Call("upload", "walk", box_subfile, TRUE))
                                  EXCEPT !.remote = WithFile(@, box_subfile, clock)],
                              WalkLine("Created subFile", box_subfile, 0)),
                      bp, Tail(files))

create_box_subfiles_found_in_local(st, local_subfiles, bp, box_subfiles) ==
    LET box_subfiles_names == ChildNames(box_subfiles)
    IN  UploadFound(st, bp,
                    SelectSeq(local_subfiles, LAMBDA l : Last(l) \notin box_subfiles_names))

\* for local_subfile in <in local, in box>: resolve by name, compare, update_contents
RECURSIVE UpdateFound(_, _, _)
UpdateFound(st, bp, files) ==
    IF st.err # "none" \/ files = <<>> THEN st
    ELSE LET f == Head(files)
             listed == get_box_subitems(st, bp, "get_corresponding_box_subfile")
             corres_box_subfile == get_corresponding_box_subfile(st.remote, f, bp)
         IN  IF listed.err # "none" THEN listed
             ELSE IF corres_box_subfile = None THEN Raise(listed, "AttributeError")
             ELSE IF ~(local.files[f].mtime > st.remote.files[corres_box_subfile])
             THEN UpdateFound(listed, bp, Tail(files))
             ELSE IF Fails("update_contents", corres_box_subfile)
             THEN Raise(Logged(listed, Call("update_contents", "walk", corres_box_subfile, FALSE)),
                        "BoxAPIException")
             ELSE UpdateFound(
                      Printed([Logged(listed,
                                      Call("update_contents", "walk", corres_box_subfile, TRUE))
                                  EXCEPT !.remote = WithFile(@, corres_box_subfile, clock)],
                              WalkLine("Updated subFile", corres_box_subfile, 0)),
                      bp, Tail(files))

update_box_subfiles_found_in_local(st, local_subfiles, bp, box_subfiles) ==
    LET box_subfiles_names == ChildNames(box_subfiles)
    IN  UpdateFound(st, bp, SelectSeq(local_subfiles, LAMBDA l : Last(l) \in box_subfiles_names))

\* delete the Box subfolders not found locally, then create the local ones not in Box
sync_box_subfolders(st, local_subfolders, bp, box_subfolders) ==
    create_box_subfolders_found_in_local(
        delete_box_subfolders_not_found_in_local(st, local_subfolders, box_subfolders),
        local_subfolders, bp, box_subfolders)

\* delete, upload and, if update_subfiles, update the files of the level
sync_box_subfiles(st, local_subfiles, bp, box_subfiles, update_subfiles) ==
    LET s1 == delete_box_subfiles_not_found_in_local(st, local_subfiles, box_subfiles)
        s2 == create_box_subfiles_found_in_local(s1, local_subfiles, bp, box_subfiles)
    IN  IF update_subfiles
        THEN update_box_subfiles_found_in_local(s2, local_subfiles, bp, box_subfiles)
        ELSE s2

\* the five prints of the ids a level deleted, created and updated
Summary(st, bp, counts) ==
    LET texts == <<"Deleted Box subFolders", "Created Box subFolders", "Deleted Box subFiles",
                   "Created Box subFiles", "Updated Box subFiles">>
    IN  IF is_verbose
        THEN [st EXCEPT !.out = @ \o [i \in 1..5 |-> WalkLine(texts[i], bp, counts[i])]]
        ELSE st

RECURSIVE walk_local_dir_tree_sync_contents(_, _, _, _)

\* for local_subfolder in local_subfolders: resolve the Box subfolder by name, walk it
RECURSIVE WalkDown(_, _, _, _)
WalkDown(st, bp, local_subfolders, update_subfiles) ==
    IF st.err # "none" \/ local_subfolders = <<>> THEN st
    ELSE LET local_subfolder == Head(local_subfolders)
             listed == get_box_subitems(st, bp, "get_corresponding_box_subfolder")
             corres_box_subfolder == get_corresponding_box_subfolder(st.remote, local_subfolder, bp)
         IN  WalkDown(
                 walk_local_dir_tree_sync_contents(listed, local_subfolder, corres_box_subfolder,
                                                   update_subfiles),
                 bp, Tail(local_subfolders), update_subfiles)

walk_local_dir_tree_sync_contents(st, local_folder, bp, update_subfiles) ==
    IF st.err # "none" THEN st
    ELSE IF bp = None /\ is_verbose THEN Raise(st, "AttributeError")
    ELSE IF Fails("scandir", local_folder) THEN Raise(st, "OSError")
    ELSE LET s0 == IF bp = None THEN st ELSE Printed(st, WalkLine("Box Folder ID", bp, 0))
             listed == get_box_subitems(s0, bp, "walk_local_dir_tree_sync_contents")
         IN  IF listed.err # "none" THEN listed
             ELSE LET local_subitems == get_local_subitems(local_folder)
                      local_subfolders == get_local_subfolders(local_subitems)
                      box_subfolders == get_box_subfolders(st.remote, bp)
                      s1 == sync_box_subfolders(listed, local_subfolders, bp, box_subfolders)
                      local_subfiles == get_local_subfiles(local_subitems, rgx_file)
                      box_subfiles == get_box_subfiles(st.remote, bp)
                      s2 == sync_box_subfiles(s1, local_subfiles, bp, box_subfiles,
                                              update_subfiles)
                  IN  IF s2.err # "none" THEN s2
                      ELSE WalkDown(
                               Summary(s2, bp, <<IdsSince(listed, s1, "delete_folder"),
                                                 IdsSince(listed, s1, "create_subfolder"),
                                                 IdsSince(s1, s2, "delete_file"),
                                                 IdsSince(s1, s2, "upload"),
                                                 IdsSince(s1, s2, "update_contents")>>),
                               bp, local_subfolders, update_subfiles)

-----------------------------------------------------------------------------
\* Initial states: a local filesystem, a Box folder tree and the options of the run

\* the entries a tree can gain: a file in any of its folders, a folder above MaxDepth
Extensions(T, dnames, fnames) ==
    LET dirs == {Root} \cup {p \in T : Last(p) \in dnames}
    IN  {Append(d, n) : d \in dirs, n \in fnames}
        \cup {Append(d, n) : d \in {d \in dirs : Len(d) < MaxDepth}, n \in dnames}

\* the trees of at most k entries below the root
RECURSIVE Trees(_, _, _)
Trees(dnames, fnames, k) ==
    IF k = 0 THEN {{}}
    ELSE LET prev == Trees(dnames, fnames, k - 1)
         IN  prev \cup UNION {{T \cup {e} : e \in Extensions(T, dnames, fnames)} : T \in prev}

\* the trees of at most k entries, all directly below the root
FlatTrees(names, k) == {T \in SUBSET {<<n>> : n \in names} : Cardinality(T) <= k}

DirsOf(T, dnames) == {p \in T : Last(p) \in dnames}
FilesOf(T, fnames) == {p \in T : Last(p) \in fnames}

\* entries of a study directory that no pattern matches: none, or enough to reach the limit
ExtraItems == {0, StudyItemLimit - 2, StudyItemLimit - 1}

EmptyBox == [folders |-> {}, files |-> [f \in {} |-> 0]]

\* a filesystem with folders and files that the patterns filter, datasets of either
\* series, files that are no datasets, and crowded study directories; Box is empty
InitLocal ==
    /\ \E T \in Trees(FolderNames \cup {JunkFolder}, DicomFileNames \cup {OtherFile}, MaxLocal) :
       \E descrip \in [FilesOf(T, DicomFileNames) -> SeriesDescriptions] :
       \E extra \in ExtraItems :
          local = [dirs |-> DirsOf(T, FolderNames \cup {JunkFolder}),
                   files |-> [f \in FilesOf(T, DicomFileNames \cup {OtherFile}) |->
                                 [mtime |-> 1,
                                  descrip |-> IF f \in DOMAIN descrip THEN descrip[f] ELSE ""]],
                   extra |-> extra]
    /\ remote = EmptyBox
    /\ rgx_file \in FilePatterns
    /\ update_files = FALSE
    /\ remove_items = FALSE
    /\ fail = NoFail
    /\ is_verbose = FALSE
    /\ clock = MaxTime

\* a filesystem of matching names and matching datasets against a Box tree of its own
InitRemote ==
    /\ \E T \in Trees(FolderNames, {"i1.MRDC.1"}, MaxRemote) :
       \E mtime \in 1..MaxTime :
          local = [dirs |-> DirsOf(T, FolderNames),
                   files |-> [f \in FilesOf(T, DicomFileNames) |->
                                 [mtime |-> mtime, descrip |-> "t1sag_208"]],
                   extra |-> 0]
    /\ \E T \in Trees(FolderNames, {"i1.MRDC.1"}, MaxRemote) :
       \E modified_at \in [FilesOf(T, DicomFileNames) -> 1..MaxTime] :
          remote = [folders |-> DirsOf(T, FolderNames), files |-> modified_at]
    /\ rgx_file = "mrdc"
    /\ update_files \in BOOLEAN
    /\ remove_items \in BOOLEAN
    /\ fail = NoFail
    /\ is_verbose = FALSE
    /\ clock = MaxTime

\* the trees of the specification's scenarios: dicom/{i1, dicom/{i1}} and
\* dicom/{dicom/{i1 matching}, s00001/{i1 not matching}}, against a Box tree of its own
ScenarioFiles ==
    {[f \in {<<"dicom", "i1.MRDC.1">>, <<"dicom", "dicom", "i1.MRDC.1">>} |->
         [mtime |-> MaxTime, descrip |-> "t1sag_208"]],
     (<<"dicom", "dicom", "i1.MRDC.1">> :> [mtime |-> MaxTime, descrip |-> "t1sag_208"])
        @@ (<<"dicom", "s00001", "i1.MRDC.1">> :> [mtime |-> MaxTime, descrip |-> "localizer"])}

InitScenario ==
    /\ \E files \in ScenarioFiles :
          local = [dirs |-> {Parent(f) : f \in DOMAIN files} \cup {<<"dicom">>},
                   files |-> files,
                   extra |-> 0]
    /\ \E T \in Trees(FolderNames, {"i1.MRDC.1"}, MaxRemote) :
          remote = [folders |-> DirsOf(T, FolderNames),
                    files |-> [f \in FilesOf(T, DicomFileNames) |-> 1]]
    /\ rgx_file = "mrdc"
    /\ update_files \in BOOLEAN
    /\ remove_items \in BOOLEAN
    /\ fail = NoFail
    /\ is_verbose \in BOOLEAN
    /\ clock = MaxTime

\* the calls that can fail: a listing of a local directory raising OSError, a remote
\* call raising BoxAPIException, or a delete returning false
Failures ==
    {[op |-> o, path |-> p, mode |-> "raise"] :
        o \in {"scandir", "get_items"}, p \in {Root} \cup {<<n>> : n \in FolderNames}}
    \cup {[op |-> "delete_folder", path |-> <<n>>, mode |-> m] :
             n \in FolderNames, m \in {"raise", "false"}}
    \cup {[op |-> "delete_file", path |-> <<n>>, mode |-> m] :
             n \in DicomFileNames, m \in {"raise", "false"}}
    \cup {[op |-> "create_subfolder", path |-> <<n>>, mode |-> "raise"] : n \in FolderNames}
    \cup {[op |-> o, path |-> <<n>>, mode |-> "raise"] :
             o \in {"upload", "update_contents"}, n \in DicomFileNames}

\* sibling folders and files on both sides, and one remote call that fails
InitFail ==
    /\ \E T \in FlatTrees(FolderNames \cup DicomFileNames, MaxRemote) :
          local = [dirs |-> DirsOf(T, FolderNames),
                   files |-> [f \in FilesOf(T, DicomFileNames) |->
                                 [mtime |-> MaxTime, descrip |-> "t1sag_208"]],
                   extra |-> 0]
    /\ \E T \in FlatTrees(FolderNames \cup DicomFileNames, MaxRemote) :
          remote = [folders |-> DirsOf(T, FolderNames),
                    files |-> [f \in FilesOf(T, DicomFileNames) |-> 1]]
    /\ rgx_file = "mrdc"
    /\ update_files = TRUE
    /\ remove_items = TRUE
    /\ fail \in Failures
    /\ is_verbose = TRUE
    /\ clock = MaxTime

\* local files dated ahead of Box's clock (a clock that runs behind, or a file dated
\* in the future): whatever Box stamps on a file during the runs is older than the file
InitSkew ==
    /\ \E T \in Trees({"dicom"}, DicomFileNames, MaxRemote) :
          local = [dirs |-> DirsOf(T, FolderNames),
                   files |-> [f \in FilesOf(T, DicomFileNames) |->
                                 [mtime |-> MaxTime, descrip |-> "t1sag_208"]],
                   extra |-> 0]
    /\ \E T \in FlatTrees(DicomFileNames, MaxRemote) :
          remote = [folders |-> {}, files |-> [f \in T |-> 0]]
    /\ rgx_file = "mrdc"
    /\ update_files \in BOOLEAN
    /\ remove_items = FALSE
    /\ fail = NoFail
    /\ is_verbose = FALSE
    /\ clock = 0

Init ==
    /\ InitLocal \/ InitRemote \/ InitScenario \/ InitFail \/ InitSkew
    /\ nodes = (Root :> DirEntryNode(0))
    /\ pc = "start"
    /\ err = "none"
    /\ logs = <<>>
    /\ out = <<>>
    /\ tested = <<>>

-----------------------------------------------------------------------------
\* Actions

\* the lines main and the build print whatever is_verbose is
Banner(text) == [kind |-> "banner", text |-> text, name |-> "", id |-> Root, n |-> 0]
CountLine(p) ==
    [kind |-> "count", text |-> "Number of items in", name |-> EntryName(p), id |-> Root,
     n |-> item_count(p)]

\* the folder nodes of a built tree in the order build_tree_from_node reached them
RECURSIVE VisitOrder(_, _)
RECURSIVE VisitOrderOf(_, _)
VisitOrderOf(ns, folders) ==
    IF folders = <<>> THEN <<>>
    ELSE VisitOrder(ns, Head(folders)) \o VisitOrderOf(ns, Tail(folders))

VisitOrder(ns, p) == <<p>> \o VisitOrderOf(ns, ns[p].child_dir_entry_node_folders)

\* the part of a sequence ahead of the first occurrence of x
Before(seq, x) ==
    IF \E i \in 1..Len(seq) : seq[i] = x
    THEN SubSeq(seq, 1, (CHOOSE i \in 1..Len(seq) :
                            seq[i] = x /\ \A j \in 1..(i - 1) : seq[j] # x) - 1)
    ELSE seq

\* print(f"Number of items in ..."): one line per study directory of the given folders
CountLines(folders) ==
    LET studies == SelectSeq(folders, LAMBDA q : rgx_study(EntryName(q)))
    IN  [i \in 1..Len(studies) |-> CountLine(studies[i])]

\* main: print("Building ..."), root_node.build_tree_from_node(rgx_subfolder,
\* rgx_subfile); os.scandir or os.listdir failing on a directory the build reaches
\* raises out of the build, after the lines of the directories reached before it
Build ==
    /\ pc = "start"
    /\ LET built == build_tree_from_node(nodes, Root, rgx_file)
           banner == Banner("Building DirEntryNode tree from root node...")
       IN  IF Fails("scandir", fail.path) /\ fail.path \in DOMAIN built /\ is_dir(fail.path)
           THEN /\ nodes' = nodes /\ pc' = "error" /\ err' = "OSError"
                /\ out' = Append(out, banner)
                              \o CountLines(Before(VisitOrder(built, Root), fail.path))
           ELSE /\ nodes' = built /\ pc' = "built" /\ err' = err
                /\ out' = Append(out, banner) \o CountLines(VisitOrder(built, Root))
    /\ UNCHANGED <<local, remote, logs, clock, update_files, remove_items, rgx_file, fail,
                   is_verbose, tested>>

\* main: print("Pruning nodes..."),
\* root_node.prune_nodes_without_dicom_dataset_series_descrip(rgx_sequence)
Prune ==
    /\ pc = "built"
    /\ LET r == prune_nodes_without_dicom_dataset_series_descrip(nodes, Root)
       IN  /\ nodes' = r.nodes
           /\ err' = r.err
           /\ tested' = tested \o r.tested
           /\ pc' = IF r.err = "none" THEN "pruned" ELSE "error"
    /\ out' = Append(out, Banner("Pruning nodes..."))
    /\ UNCHANGED <<local, remote, logs, clock, update_files, remove_items, rgx_file, fail,
                   is_verbose>>

\* main: print("Syncing nodes to Box..."), root_node.sync_tree_object_items(box_folder,
\* update_files=..., remove_items=..., is_verbose=...): the method has no remove_items
\* parameter, the call is a TypeError
MainSync ==
    /\ pc = "pruned"
    /\ pc' = "error"
    /\ err' = "TypeError"
    /\ out' = Append(out, Banner("Syncing nodes to Box..."))
    /\ UNCHANGED <<local, remote, nodes, logs, clock, update_files, remove_items, rgx_file,
                   fail, is_verbose, tested>>

\* root_node.sync_tree_object_items(box_folder, update_files, is_verbose), called as
\* the method is declared; a later run meets the Box tree the earlier one left
Reconcile ==
    /\ pc \in {"built", "pruned", "synced"}
    /\ Len(logs) < MaxRuns
    /\ LET st == sync_tree_object_items(
                     [remote |-> remote, log |-> <<>>, err |-> "none", out |-> <<>>],
                     Root, Root, update_files)
       IN  /\ remote' = st.remote
           /\ logs' = Append(logs, st.log)
           /\ err' = st.err
           /\ out' = out \o st.out
           /\ pc' = IF st.err = "none" THEN "synced" ELSE "error"
    /\ clock' = clock + 1
    /\ UNCHANGED <<local, nodes, update_files, remove_items, rgx_file, fail, is_verbose, tested>>

\* hlps.walk_local_dir_tree_sync_contents(local_folder, box_client, box_folder,
\* regex_subfolder, regex_subfile, update_subfiles, is_verbose): the earlier revision
\* run on the filesystem and the Box tree the build met, with the build's patterns
Walk ==
    /\ pc = "built"
    /\ LET st == walk_local_dir_tree_sync_contents(
                     [remote |-> remote, log |-> <<>>, err |-> "none", out |-> <<>>],
                     Root, Root, update_files)
       IN  /\ remote' = st.remote
           /\ err' = st.err
           /\ out' = out \o st.out
           /\ pc' = IF st.err = "none" THEN "walked" ELSE "error"
    /\ clock' = clock + 1
    /\ UNCHANGED <<local, nodes, logs, update_files, remove_items, rgx_file, fail, is_verbose,
                   tested>>

Next == Build \/ Prune \/ MainSync \/ Reconcile \/ Walk

Spec == Init /\ [][Next]_vars

-----------------------------------------------------------------------------
\* Vocabulary of the properties

Entries(log) == {log[i] : i \in 1..Len(log)}

Mutations == {"create_subfolder", "upload", "update_contents", "delete_folder", "delete_file"}
Deletions == {"delete_folder", "delete_file"}

\* the calls of one kind in a run
OpsOf(log, ops) == {e \in Entries(log) : e.op \in ops}

\* the names on which a run made a call of one kind inside Box folder bp
OpNames(log, op, bp) == {Last(e.path) : e \in {e \in OpsOf(log, {op}) : Parent(e.path) = bp}}

\* the listings with which sync_tree_object_items opened its visits of a run
SyncListings(log) ==
    {e \in OpsOf(log, {"get_items"}) : e.via = "sync_tree_object_items" /\ e.ok}

ListedFileNames(listing) == {x[1] : x \in listing.files}
ListedModifiedAt(listing, name) == (CHOOSE x \in listing.files : x[1] = name)[2]

\* the folder and file nodes the build created (prune leaves the objects, it unlinks them)
BuiltFolders == {p \in DOMAIN nodes : is_dir(p)}
BuiltFiles == {p \in DOMAIN nodes : is_file(p)}

\* some file node at or below folder p is a dataset whose series description matches
MatchingFileBelow(p) ==
    \E f \in BuiltFiles :
        /\ IsPrefix(p, f)
        /\ rgx_dicom(Last(f))
        /\ rgx_sequence(local.files[f].descrip)

\* every remote call of every run succeeded and no exception ended the run
NoFailure == fail = NoFail /\ err = "none"

-----------------------------------------------------------------------------
\* C1 Idempotence, as stated: once a reconcile run has completed without a failing
\* remote call, every later run against the unchanged tree and the Box state the
\* earlier run left issues no create-folder, upload, update-contents or delete call,
\* whatever update_files and remove_items are.
C1_Idempotence ==
    NoFailure => \A k \in 2..Len(logs) : OpsOf(logs[k], Mutations) = {}

\* Box's clock when run k started
ClockAt(k) == clock - Len(logs) + (k - 1)

\* C1 Idempotence, amended: once a reconcile run has completed without a failing
\* remote call, every later run against the unchanged tree and the Box state the
\* earlier run left issues no create-folder, upload or delete call, and issues
\* update-contents only on a file whose local modification time is later than Box's
\* clock was during the run before; with no local time ahead of Box's clock a later
\* run changes nothing.
C1_IdempotentUnlessAhead ==
    NoFailure =>
        \A k \in 2..Len(logs) :
            /\ OpsOf(logs[k], Mutations \ {"update_contents"}) = {}
            /\ \A e \in OpsOf(logs[k], {"update_contents"}) :
                  local.files[e.path].mtime > ClockAt(k - 1)
            /\ (\A f \in DOMAIN local.files : local.files[f].mtime <= ClockAt(1))
                  => OpsOf(logs[k], Mutations) = {}

\* a second run has completed and changed nothing after a first run that created,
\* uploaded and updated
C1_Witness ==
    /\ NoFailure /\ Len(logs) >= 2 /\ update_files
    /\ OpsOf(logs[1], {"create_subfolder"}) # {}
    /\ OpsOf(logs[1], {"upload"}) # {}
    /\ OpsOf(logs[1], {"update_contents"}) # {}
    /\ OpsOf(logs[2], Mutations) = {}

\* a second run has sent again a file dated ahead of Box's clock
C1_WitnessAhead ==
    /\ NoFailure /\ Len(logs) >= 2
    /\ OpsOf(logs[1], {"upload"}) # {}
    /\ OpsOf(logs[2], {"update_contents"}) # {}

-----------------------------------------------------------------------------
\* C2 Pruning correctness, as stated: after prune(root, P) every folder node of the
\* built tree, the root included, is still in the tree if and only if some file at
\* or below it has a series description matching P.
C2_AllFolders ==
    pc = "pruned" =>
        \A p \in BuiltFolders : p \in FolderNodes(nodes) <=> MatchingFileBelow(p)

\* C2 Pruning correctness, amended: after prune(root, P) every folder node of the
\* built tree other than the root is still in the tree if and only if some file at
\* or below it has a series description matching P; the root always stays.
C2_PruningCorrectness ==
    pc = "pruned" =>
        /\ Root \in FolderNodes(nodes)
        /\ \A p \in BuiltFolders \ {Root} :
               p \in FolderNodes(nodes) <=> MatchingFileBelow(p)

\* a prune has kept one folder and cut another
C2_Witness ==
    /\ pc = "pruned"
    /\ \E p \in BuiltFolders \ {Root} : p \in FolderNodes(nodes)
    /\ \E p \in BuiltFolders \ {Root} : p \notin FolderNodes(nodes)

-----------------------------------------------------------------------------
\* C3 Convergence: when a reconcile run has completed without a failing remote call
\* and remove_items is set, then for every folder node of the desired tree the Box
\* folder of the same path exists and holds exactly the subfolder names of the
\* node's child folders and exactly the file names of the node's child files.
C3_Convergence ==
    (pc = "synced" /\ NoFailure /\ remove_items) =>
        \A p \in FolderNodes(nodes) :
            /\ p = Root \/ p \in remote.folders
            /\ SubfolderNames(remote, p) = ChildNames(nodes[p].child_dir_entry_node_folders)
            /\ SubfileNames(remote, p) = ChildNames(nodes[p].child_dir_entry_node_files)

\* a completed run that had to delete a folder and a file and to create and upload
C3_Witness ==
    /\ pc = "synced" /\ NoFailure /\ remove_items /\ Len(logs) = 1
    /\ OpsOf(logs[1], {"delete_folder"}) # {}
    /\ OpsOf(logs[1], {"delete_file"}) # {}
    /\ OpsOf(logs[1], {"create_subfolder"}) # {}
    /\ OpsOf(logs[1], {"upload"}) # {}

-----------------------------------------------------------------------------
\* C4 Name-based diffing: at every level a run visits, with D the names of the
\* node's child folders and R the names of the listed Box subfolders, the run deletes
\* exactly the folders R \ D, creates exactly the folders D \ R, and visits every
\* folder of D; with the file names in place of the folder names it deletes exactly
\* R \ D and uploads exactly D \ R.
C4_NameBasedDiffing ==
    NoFailure =>
        \A k \in 1..Len(logs) : \A listing \in SyncListings(logs[k]) :
            LET bp == listing.path
                D == ChildNames(nodes[bp].child_dir_entry_node_folders)
                R == listing.folders
                DF == ChildNames(nodes[bp].child_dir_entry_node_files)
                RF == ListedFileNames(listing)
            IN  /\ OpNames(logs[k], "delete_folder", bp) = R \ D
                /\ OpNames(logs[k], "create_subfolder", bp) = D \ R
                /\ \A n \in D : \E l \in SyncListings(logs[k]) : l.path = Append(bp, n)
                /\ OpNames(logs[k], "delete_file", bp) = RF \ DF
                /\ OpNames(logs[k], "upload", bp) = DF \ RF

\* a level where a folder name is on both sides, one only in Box and one only in the tree
C4_Witness ==
    /\ NoFailure /\ Len(logs) = 1
    /\ \E listing \in SyncListings(logs[1]) :
           LET D == ChildNames(nodes[listing.path].child_dir_entry_node_folders)
               DF == ChildNames(nodes[listing.path].child_dir_entry_node_files)
           IN  /\ D \cap listing.folders # {}
               /\ (listing.folders \ D) \cup (ListedFileNames(listing) \ DF) # {}
               /\ (D \ listing.folders) \cup (DF \ ListedFileNames(listing)) # {}

-----------------------------------------------------------------------------
\* C5 Removal is gated, as stated: with remove_items false no run issues a delete
\* call, for a folder or for a file, at any level.
C5_RemovalGated ==
    ~remove_items => \A k \in 1..Len(logs) : OpsOf(logs[k], Deletions) = {}

-----------------------------------------------------------------------------
\* C6 Update threshold: in a run with update_files set, for every child file of a
\* visited node whose name is among the listed Box files, update_contents is issued
\* on the Box file if and only if the local modification time is strictly later
\* than the listed modified_at; in particular never when the two are equal.
C6_UpdateThreshold ==
    (NoFailure /\ update_files) =>
        \A k \in 1..Len(logs) : \A listing \in SyncListings(logs[k]) :
            \A f \in Range(nodes[listing.path].child_dir_entry_node_files) :
                Last(f) \in ListedFileNames(listing) =>
                    (Last(f) \in OpNames(logs[k], "update_contents", listing.path)
                        <=> local.files[f].mtime > ListedModifiedAt(listing, Last(f)))

\* one run met a Box file older than the local file and updated it, and a run met a
\* Box file with the local file's exact time
C6_Witness ==
    /\ NoFailure /\ update_files /\ Len(logs) >= 1
    /\ OpsOf(logs[1], {"update_contents"}) # {}
    /\ \E k \in 1..Len(logs) : \E listing \in SyncListings(logs[k]) :
           \E f \in Range(nodes[listing.path].child_dir_entry_node_files) :
               /\ Last(f) \in ListedFileNames(listing)
               /\ local.files[f].mtime = ListedModifiedAt(listing, Last(f))

-----------------------------------------------------------------------------
\* C7 The update pass is opt-in at every depth: with update_files false no run issues
\* update_contents or resolves a Box file for comparison, at any level; with
\* update_files true the update pass runs at every visited level, resolving every
\* child file whose name is among the listed Box files.
C7_UpdateOptIn ==
    NoFailure =>
        \A k \in 1..Len(logs) :
            /\ ~update_files =>
                   /\ OpsOf(logs[k], {"update_contents"}) = {}
                   /\ \A e \in OpsOf(logs[k], {"get_items"}) :
                          e.via # "get_corresponding_box_subfile"
            /\ update_files =>
                   \A listing \in SyncListings(logs[k]) :
                       \A f \in Range(nodes[listing.path].child_dir_entry_node_files) :
                           Last(f) \in ListedFileNames(listing) =>
                               \E e \in OpsOf(logs[k], {"get_items"}) :
                                   /\ e.via = "get_corresponding_box_subfile"
                                   /\ e.path = listing.path

\* a run with update_files met an older Box file below the top level and updated it
C7_Witness ==
    /\ NoFailure /\ Len(logs) = 1
    /\ \E listing \in SyncListings(logs[1]) :
           /\ Len(listing.path) >= 1
           /\ \E f \in Range(nodes[listing.path].child_dir_entry_node_files) :
                  /\ Last(f) \in ListedFileNames(listing)
                  /\ local.files[f].mtime > ListedModifiedAt(listing, Last(f))
                  /\ Last(f) \in OpNames(logs[1], "update_contents", listing.path)
    /\ update_files

\* the same level met with update_files false: the older Box file is left as it is
C7_WitnessOff ==
    /\ NoFailure /\ Len(logs) = 1 /\ ~update_files
    /\ \E listing \in SyncListings(logs[1]) :
           /\ Len(listing.path) >= 1
           /\ \E f \in Range(nodes[listing.path].child_dir_entry_node_files) :
                  /\ Last(f) \in ListedFileNames(listing)
                  /\ local.files[f].mtime > ListedModifiedAt(listing, Last(f))

-----------------------------------------------------------------------------
\* C8 Per-item failure isolation, as stated: when one delete, create-subfolder, upload
\* or update-contents call fails at a level, every other item the same pass has to
\* handle at that level is still attempted.

\* the names the pass of one kind has to handle at a listed level
PassTargets(op, listing) ==
    LET D == ChildNames(nodes[listing.path].child_dir_entry_node_folders)
        DF == ChildNames(nodes[listing.path].child_dir_entry_node_files)
        RF == ListedFileNames(listing)
    IN  CASE op = "delete_folder" -> listing.folders \ D
          [] op = "delete_file" -> RF \ DF
          [] op = "create_subfolder" -> D \ listing.folders
          [] op = "upload" -> DF \ RF
          [] op = "update_contents" ->
                 {n \in DF \cap RF :
                     local.files[Append(listing.path, n)].mtime > ListedModifiedAt(listing, n)}
          [] OTHER -> {}

C8_FailureIsolation ==
    \A k \in 1..Len(logs) : \A e \in OpsOf(logs[k], Mutations) :
        ~e.ok =>
            \A listing \in SyncListings(logs[k]) :
                listing.path = Parent(e.path) =>
                    PassTargets(e.op, listing) \subseteq OpNames(logs[k], e.op, listing.path)

-----------------------------------------------------------------------------
\* C9 Unrecognized files are non-matching, not errors, as stated: reading the series
\* description of a file node that is no recognized dataset raises nothing (the
\* read of a missing SeriesDescription is what raises AttributeError), so the
\* search and the prune never end in that error. Before the first reconcile run
\* the prune is the only step that can raise it.
C9_NoErrorOnUnrecognized == logs = <<>> => err # "AttributeError"

-----------------------------------------------------------------------------
\* C10 The study-directory size safeguard, as stated: after the build a folder node
\* with a study name has one child per matching entry of its directory, whatever
\* the number of entries of the directory is.

\* the entries of directory p that the build's patterns keep
MatchingFolders(p) == {e \in Range(scandir(p)) : is_dir(e) /\ rgx_subfolder(Last(e))}
MatchingFiles(p) == {e \in Range(scandir(p)) : is_file(e) /\ MatchFile(rgx_file, Last(e))}

HasAllChildren(p) ==
    /\ Range(nodes[p].child_dir_entry_node_folders) = MatchingFolders(p)
    /\ Range(nodes[p].child_dir_entry_node_files) = MatchingFiles(p)

HasNoChildren(p) ==
    /\ nodes[p].child_dir_entry_node_folders = <<>>
    /\ nodes[p].child_dir_entry_node_files = <<>>

C10_SafeguardKeepsTree ==
    pc = "built" =>
        \A p \in BuiltFolders : rgx_study(EntryName(p)) => HasAllChildren(p)

\* C10 amended: after the build a folder node with a study name has one child per
\* matching entry when its directory holds fewer than 250 entries, and no child at
\* all when the directory holds 250 entries or more.
C10_SafeguardCutsTree ==
    pc = "built" =>
        \A p \in BuiltFolders :
            rgx_study(EntryName(p)) =>
                IF item_count(p) < StudyItemLimit THEN HasAllChildren(p) ELSE HasNoChildren(p)

\* a built tree with a study folder of exactly 250 entries, a matching one among them
C10_Witness ==
    /\ pc = "built"
    /\ \E p \in BuiltFolders :
           /\ rgx_study(EntryName(p))
           /\ item_count(p) = StudyItemLimit
           /\ MatchingFolders(p) \cup MatchingFiles(p) # {}

-----------------------------------------------------------------------------
\* C11 Tree Builder result, as stated: after the build every folder node has exactly
\* the matching folder entries of its directory as child folders and exactly the
\* matching file entries as child files, each once and at the node's depth plus one,
\* every node is reachable from the root, and file nodes have no children.

NoRepeats(children) == Cardinality(Range(children)) = Len(children)

ChildrenOneDeeper(p) ==
    \A c \in Range(nodes[p].child_dir_entry_node_folders)
                \cup Range(nodes[p].child_dir_entry_node_files) :
        nodes[c].depth = nodes[p].depth + 1

WellFormedTree ==
    /\ DOMAIN nodes = Reachable(nodes, Root)
    /\ nodes[Root].depth = 0
    /\ \A p \in BuiltFolders :
           /\ NoRepeats(nodes[p].child_dir_entry_node_folders)
           /\ NoRepeats(nodes[p].child_dir_entry_node_files)
           /\ ChildrenOneDeeper(p)
    /\ \A f \in BuiltFiles : HasNoChildren(f)

C11_AllEntries ==
    pc = "built" => WellFormedTree /\ \A p \in BuiltFolders : HasAllChildren(p)

\* C11 amended: the same, except that a folder node with a study name whose directory
\* holds 250 entries or more has no children at all.
C11_TreeBuilderResult ==
    pc = "built" =>
        /\ WellFormedTree
        /\ \A p \in BuiltFolders :
               IF rgx_study(EntryName(p)) /\ item_count(p) >= StudyItemLimit
               THEN HasNoChildren(p)
               ELSE HasAllChildren(p)

\* a built tree with a file node two folders below the root and an entry the
\* patterns filtered out
C11_Witness ==
    /\ pc = "built"
    /\ \E f \in BuiltFiles : nodes[f].depth >= 2
    /\ \E e \in local.dirs \cup DOMAIN local.files :
           Parent(e) \in DOMAIN nodes /\ e \notin DOMAIN nodes

-----------------------------------------------------------------------------
\* C12 Fresh sync: a reconcile run that finds the Box root folder empty and meets no
\* failing call issues exactly one create_subfolder per folder node below the root,
\* at the node's own path, exactly one upload per file node, at the node's path,
\* no other create_subfolder or upload, and no delete and no update_contents.

\* the number of calls of one kind a run made on one Box path
CountCalls(log, op, path) ==
    Cardinality({i \in 1..Len(log) : log[i].op = op /\ log[i].path = path})

\* the run opened with a listing of the Box root folder that showed no item
StartedEmpty(log) ==
    /\ Len(log) >= 1
    /\ log[1].op = "get_items" /\ log[1].path = Root /\ log[1].ok
    /\ log[1].folders = {} /\ log[1].files = {}

C12_FreshSync ==
    NoFailure =>
        \A k \in 1..Len(logs) :
            StartedEmpty(logs[k]) =>
                /\ \A p \in FolderNodes(nodes) \ {Root} :
                       CountCalls(logs[k], "create_subfolder", p) = 1
                /\ \A f \in FileNodes(nodes) : CountCalls(logs[k], "upload", f) = 1
                /\ {e.path : e \in OpsOf(logs[k], {"create_subfolder"})}
                       \subseteq FolderNodes(nodes)
                /\ {e.path : e \in OpsOf(logs[k], {"upload"})} \subseteq FileNodes(nodes)
                /\ OpsOf(logs[k], Deletions \cup {"update_contents"}) = {}

\* a fresh run with update_files set over the tree A/{x, B/{y}}: a folder in a folder,
\* a file in each
C12_Witness ==
    /\ NoFailure /\ Len(logs) = 1 /\ StartedEmpty(logs[1]) /\ update_files
    /\ \E a \in FolderNodes(nodes), b \in FolderNodes(nodes), x \in FileNodes(nodes),
          y \in FileNodes(nodes) :
           /\ Parent(a) = Root /\ Parent(b) = a /\ Parent(x) = a /\ Parent(y) = b
           /\ CountCalls(logs[1], "create_subfolder", b) = 1
           /\ CountCalls(logs[1], "upload", x) = 1
           /\ CountCalls(logs[1], "upload", y) = 1

-----------------------------------------------------------------------------
\* C13 Pruned branches are never materialised remotely: the reconcile run that follows
\* build and prune issues no create_subfolder, upload or update_contents at or below
\* the Box path of a folder that has no file with a matching series description at
\* or below it.
C13_PrunedNeverMaterialised ==
    [][(pc = "pruned" /\ logs' # logs) =>
          \A p \in BuiltFolders \ {Root} :
              ~MatchingFileBelow(p) =>
                  \A e \in OpsOf(logs'[Len(logs')],
                                 {"create_subfolder", "upload", "update_contents"}) :
                      ~IsPrefix(p, e.path)]_vars

\* a run after a prune that cut a folder holding a file: the run created another
\* folder beside it and deleted the cut folder's namesake in Box
C13_Witness ==
    /\ pc = "synced" /\ Len(logs) = 1
    /\ \E p \in BuiltFolders \ {Root} :
           /\ ~MatchingFileBelow(p)
           /\ p \notin FolderNodes(nodes)
           /\ \E f \in BuiltFiles : Parent(f) = p
           /\ \E e \in OpsOf(logs[1], {"delete_folder"}) : e.path = p
    /\ OpsOf(logs[1], {"create_subfolder"}) # {}
    /\ OpsOf(logs[1], {"upload"}) # {}

-----------------------------------------------------------------------------
\* C14 Depth-first immediate recursion: in a run without failing call, every
\* create_subfolder is followed at once by the listing that opens the reconcile of
\* the new folder, all calls at or below the new folder form one unbroken stretch
\* right after the create (nothing for a sibling or for the parent level comes in
\* between), and no upload into the parent folder has been issued before the create.

\* call e addresses Box folder q or something below it
AtOrBelow(q, e) == IsPrefix(q, e.path)

C14_DepthFirst ==
    NoFailure =>
        \A k \in 1..Len(logs) : \A i \in 1..Len(logs[k]) :
            logs[k][i].op = "create_subfolder" =>
                LET log == logs[k]
                    q == log[i].path
                IN  /\ i < Len(log)
                    /\ log[i + 1].op = "get_items" /\ log[i + 1].path = q
                    /\ log[i + 1].via = "sync_tree_object_items"
                    /\ \A j \in (i + 1)..Len(log) :
                           ~AtOrBelow(q, log[j]) =>
                               \A m \in j..Len(log) : ~AtOrBelow(q, log[m])
                    /\ \A j \in 1..i :
                           log[j].op = "upload" => Parent(log[j].path) # Parent(q)

\* a run created a folder, uploaded a file into it, and afterwards created a sibling
\* folder or uploaded a file into the parent folder
C14_Witness ==
    /\ NoFailure /\ Len(logs) = 1
    /\ \E i \in 1..Len(logs[1]) :
           /\ logs[1][i].op = "create_subfolder"
           /\ \E j \in (i + 1)..Len(logs[1]) :
                  /\ logs[1][j].op = "upload"
                  /\ Parent(logs[1][j].path) = logs[1][i].path
                  /\ \E m \in (j + 1)..Len(logs[1]) :
                         /\ logs[1][m].op \in {"create_subfolder", "upload"}
                         /\ Parent(logs[1][m].path) = Parent(logs[1][i].path)

-----------------------------------------------------------------------------
\* C15 Ordering invariant: in every run, at every level, each delete call on an item
\* of a Box folder is issued before every create_subfolder, upload and
\* update_contents call on an item of the same Box folder.
C15_RemovalFirst ==
    \A k \in 1..Len(logs) : \A i \in 1..Len(logs[k]), j \in 1..Len(logs[k]) :
        (/\ logs[k][i].op \in Deletions
         /\ logs[k][j].op \in {"create_subfolder", "upload", "update_contents"}
         /\ Parent(logs[k][i].path) = Parent(logs[k][j].path))
            => i < j

\* a run that deleted an item of a Box folder and created or uploaded in the same
\* folder, and that deleted a file and updated a file
C15_Witness ==
    /\ pc = "synced" /\ Len(logs) = 1
    /\ \E bp \in FolderNodes(nodes) :
           /\ OpNames(logs[1], "delete_folder", bp) \cup OpNames(logs[1], "delete_file", bp) # {}
           /\ OpNames(logs[1], "create_subfolder", bp) \cup OpNames(logs[1], "upload", bp) # {}
    /\ OpsOf(logs[1], {"delete_file"}) # {}
    /\ OpsOf(logs[1], {"update_contents"}) # {}

-----------------------------------------------------------------------------
\* C16 Single listing per visit, as stated: in a run without failing call the children
\* of every visited Box folder are listed exactly once.
C16_SingleListing ==
    NoFailure =>
        \A k \in 1..Len(logs) : \A listing \in SyncListings(logs[k]) :
            CountCalls(logs[k], "get_items", listing.path) = 1

\* C16 amended: in a run without failing call the children of every visited Box
\* folder are listed once when the visit starts, once more for every child folder of
\* the node whose name that first listing showed, and, with update_files, once more
\* for every child file of the node whose name that first listing showed.
C16_ListingsPerVisit ==
    NoFailure =>
        \A k \in 1..Len(logs) : \A listing \in SyncListings(logs[k]) :
            LET bp == listing.path
                D == ChildNames(nodes[bp].child_dir_entry_node_folders)
                DF == ChildNames(nodes[bp].child_dir_entry_node_files)
            IN  CountCalls(logs[k], "get_items", bp) =
                    1 + Cardinality(D \cap listing.folders)
                      + (IF update_files
                         THEN Cardinality(DF \cap ListedFileNames(listing))
                         ELSE 0)

\* a run with update_files visited a Box folder that already held a child folder and
\* a child file of the node, and listed it three times
C16_Witness ==
    /\ NoFailure /\ Len(logs) = 1 /\ update_files
    /\ \E listing \in SyncListings(logs[1]) :
           /\ ChildNames(nodes[listing.path].child_dir_entry_node_folders)
                  \cap listing.folders # {}
           /\ ChildNames(nodes[listing.path].child_dir_entry_node_files)
                  \cap ListedFileNames(listing) # {}
           /\ CountCalls(logs[1], "get_items", listing.path) = 3

-----------------------------------------------------------------------------
\* C17 At-most-once reconcile: in every run, the reconcile of a Box folder is opened
\* at most once per folder, and create_subfolder and upload are each issued at most
\* once per path, so no folder node is handled both as absent from Box and as
\* present in Box.

\* the number of times a run opened the reconcile of Box folder bp
VisitCount(log, bp) ==
    Cardinality({i \in 1..Len(log) :
                    /\ log[i].op = "get_items"
                    /\ log[i].via = "sync_tree_object_items"
                    /\ log[i].path = bp})

C17_AtMostOnce ==
    \A k \in 1..Len(logs) :
        /\ \A p \in BuiltFolders : VisitCount(logs[k], p) <= 1
        /\ \A e \in OpsOf(logs[k], {"create_subfolder", "upload"}) :
               CountCalls(logs[k], e.op, e.path) = 1

\* a run that handled one folder node as absent from Box and another as present,
\* and visited each of them once
C17_Witness ==
    /\ pc = "synced" /\ Len(logs) = 1
    /\ \E p \in FolderNodes(nodes), q \in FolderNodes(nodes) :
           /\ p # q /\ Parent(p) = Parent(q) /\ p # Root /\ q # Root
           /\ CountCalls(logs[1], "create_subfolder", p) = 1
           /\ CountCalls(logs[1], "create_subfolder", q) = 0
           /\ VisitCount(logs[1], p) = 1
           /\ VisitCount(logs[1], q) = 1

-----------------------------------------------------------------------------
\* C18 Enumeration failure is fatal: when the listing of a local directory fails during
\* the build, the run ends in an error before any remote call; when the listing of a
\* Box folder fails during a reconcile, that failed listing is the last call of the
\* run and of the execution (no retry, no further create, upload, update or delete)
\* and the run ends in an error.

\* the build reaches directory p: every folder above it is kept and scanned
RECURSIVE BuildLists(_)
BuildLists(p) ==
    \/ p = Root
    \/ /\ p \in local.dirs
       /\ rgx_subfolder(Last(p))
       /\ BuildLists(Parent(p))
       /\ ~(rgx_study(EntryName(Parent(p))) /\ item_count(Parent(p)) >= StudyItemLimit)

C18_EnumerationFatal ==
    /\ (fail.op = "scandir" /\ BuildLists(fail.path) /\ pc # "start") =>
           (pc = "error" /\ err # "none" /\ logs = <<>>)
    /\ \A k \in 1..Len(logs) : \A i \in 1..Len(logs[k]) :
           (logs[k][i].op = "get_items" /\ ~logs[k][i].ok) =>
               /\ i = Len(logs[k]) /\ k = Len(logs)
               /\ pc = "error" /\ err # "none"

\* a run that had already deleted or created something when the listing of a Box
\* folder below the root failed
C18_Witness ==
    /\ pc = "error" /\ Len(logs) = 1
    /\ OpsOf(logs[1], Mutations) # {}
    /\ \E i \in 1..Len(logs[1]) :
           /\ logs[1][i].op = "get_items" /\ ~logs[1][i].ok
           /\ logs[1][i].path # Root

\* a build that failed on the listing of a directory below the root
C18_WitnessLocal ==
    /\ pc = "error" /\ err = "OSError" /\ fail.path # Root

-----------------------------------------------------------------------------
\* C19 Entry point pipeline, as stated: with main's own file pattern and no failing
\* collaborator, the run of main (build, prune, then its call of the reconciler with
\* update_files, remove_items and is_verbose) never ends in an error.
C19_EntryPointCompletes ==
    (fail = NoFail /\ rgx_file = "mrdc" /\ logs = <<>>) => pc # "error"

-----------------------------------------------------------------------------
\* C20 matchesBelow equals 'any match below', as stated: on every folder node of a
\* built tree the folders-first, short-circuiting search returns, without raising,
\* true if and only if some file node at or below the folder has a matching series
\* description (false for a folder node without children).
C20_SearchIsAnyMatch ==
    pc = "built" =>
        \A p \in BuiltFolders :
            search_at_or_below_for_dicom_dataset_series_descrip(nodes, p)
                = Found(MatchingFileBelow(p))

-----------------------------------------------------------------------------
\* what a run has printed, by kind of line
LinesOf(kind) == SelectSeq(out, LAMBDA l : l.kind = kind)

\* the create, upload, update and delete calls of a run that were performed
Performed(log) == SelectSeq(log, LAMBDA e : e.op \in Mutations /\ e.ok)

\* the line print_subitem_action or the "Removed" print gives for a performed call
ReportOf(e) ==
    Report(IF e.op \in Deletions THEN "Removed"
           ELSE IF e.op = "update_contents" THEN "Updating" ELSE "Creating",
           e.path)

RECURSIVE ReportsDue(_)
ReportsDue(runs) ==
    IF runs = <<>> THEN <<>>
    ELSE LET done == Performed(Head(runs))
         IN  [i \in 1..Len(done) |-> ReportOf(done[i])] \o ReportsDue(Tail(runs))

\* C21 Logging contract, as stated: in verbose mode every performed create, update
\* and delete is reported with the name and the Box id of the item, and in
\* non-verbose mode build, prune and reconcile print nothing at all.
C21_SilentUnlessVerbose ==
    /\ is_verbose => LinesOf("report") = ReportsDue(logs)
    /\ ~is_verbose => out = <<>>

\* C21 Logging contract, as the code has it: in verbose mode the reports are exactly
\* the performed create, upload, update and delete calls, in their order, each with
\* the name and the Box id of the item; in non-verbose mode no call is reported, and
\* every line printed is one of main's phase lines or the item count of a study
\* directory the build reached.
C21_LoggingContract ==
    /\ is_verbose => LinesOf("report") = ReportsDue(logs)
    /\ ~is_verbose => \A i \in 1..Len(out) : out[i].kind \in {"banner", "count"}
    /\ \A i \in 1..Len(out) :
          out[i].kind = "count" =>
              \E p \in local.dirs :
                  /\ rgx_study(EntryName(p)) /\ out[i].name = EntryName(p)
                  /\ out[i].n = item_count(p)

\* a verbose run that created, updated and removed Box items after a build that
\* counted a study directory
C21_Witness ==
    /\ is_verbose
    /\ \A t \in {"Creating", "Updating", "Removed"} :
          \E i \in 1..Len(out) : out[i].kind = "report" /\ out[i].text = t
    /\ LinesOf("count") # <<>>

\* a non-verbose run that changed Box and printed only the phase and count lines
C21_WitnessQuiet ==
    /\ ~is_verbose
    /\ pc = "synced"
    /\ \E r \in 1..Len(logs) : Performed(logs[r]) # <<>>
    /\ LinesOf("count") # <<>>

-----------------------------------------------------------------------------
\* how often x occurs in a sequence
Occurrences(seq, x) == Cardinality({i \in 1..Len(seq) : seq[i] = x})

\* C22 Prune examines every sibling: when prune has returned, every folder node the
\* build gave to a node that prune visited (the root and every folder it kept) has
\* been tested with the search exactly once, whether or not siblings ahead of it
\* were removed; the folder nodes below a removed folder are not tested by prune.
C22_EverySiblingOnce ==
    pc = "pruned" =>
        \A c \in BuiltFolders \ {Root} :
            Occurrences(tested, c) = IF Parent(c) \in FolderNodes(nodes) THEN 1 ELSE 0

\* prune removed a folder node and went on to test a sibling that came after it
C22_Witness ==
    /\ pc = "pruned"
    /\ \E i, j \in 1..Len(tested) :
          /\ i < j
          /\ Parent(tested[i]) = Parent(tested[j])
          /\ tested[i] \notin FolderNodes(nodes)

-----------------------------------------------------------------------------
\* sub is seq with some of its members left out
Thinned(sub, seq) == \E keep \in SUBSET Range(seq) : sub = SelectSeq(seq, LAMBDA x : x \in keep)

\* the file's own series description matches the content pattern
OwnMatch(f) == rgx_dicom(Last(f)) /\ rgx_sequence(local.files[f].descrip)

-----------------------------------------------------------------------------
\* the Box paths on which a run made a successful call of one of the kinds ops
DonePaths(log, ops) == {e.path : e \in {e \in OpsOf(log, ops) : e.ok}}

\* C24 No double transfer: within one reconcile run no file is both uploaded by the
\* creation pass and overwritten by the update pass, even when the copy Box has just
\* stamped is older than the local file (the update pass goes by the names of the
\* listing taken when the visit started), and nothing the run created is deleted,
\* itself or with a folder above it, later in the same run.
C24_NoDoubleTransfer ==
    \A r \in 1..Len(logs) :
        /\ DonePaths(logs[r], {"upload"}) \cap DonePaths(logs[r], {"update_contents"}) = {}
        /\ \A i, j \in 1..Len(logs[r]) :
              (/\ i < j
               /\ logs[r][i].op \in {"create_subfolder", "upload"} /\ logs[r][i].ok
               /\ logs[r][j].op \in Deletions /\ logs[r][j].ok)
              => ~IsPrefix(logs[r][j].path, logs[r][i].path)

\* a run with update_files uploaded one file and updated another, and the copy of
\* the uploaded file in Box carries a time older than the local file's
C24_Witness ==
    /\ update_files /\ Len(logs) = 1 /\ pc = "synced"
    /\ DonePaths(logs[1], {"update_contents"}) # {}
    /\ \E f \in DonePaths(logs[1], {"upload"}) : local.files[f].mtime > remote.files[f]

-----------------------------------------------------------------------------
\* what sync_tree_object_items does from the Box tree of the current state
Reconciled ==
    sync_tree_object_items([remote |-> remote, log |-> <<>>, err |-> "none", out |-> <<>>],
                           Root, Root, update_files)

\* a step of the walker
WalkStep == pc = "built" /\ clock' # clock /\ logs' = logs

\* some study directory of the built tree holds StudyItemLimit entries or more
CrowdedStudy ==
    \E p \in BuiltFolders : rgx_study(EntryName(p)) /\ item_count(p) >= StudyItemLimit

\* C25 Revision equivalence, as stated: from the same filesystem, patterns and Box
\* tree, with no pruning, the walker and sync_tree_object_items on the built tree
\* leave the same Box tree, and the walker never calls itself with None for the Box
\* folder.
C25_AlwaysEquivalent ==
    [][ WalkStep =>
            /\ err' # "AttributeError"
            /\ (fail = NoFail => remote' = Reconciled.remote)
      ]_vars

\* C25 Revision equivalence, amended: the walker never calls itself with None for
\* the Box folder; when no study directory holds StudyItemLimit entries or more, the
\* walker and sync_tree_object_items end the same way, both completing or both
\* stopped by the same exception of the same failing call, and when they complete
\* they leave the same Box tree; with a crowded study directory and no failing call
\* the reconciler leaves what the walker leaves less entries below that directory.
C25_RevisionEquivalence ==
    [][ WalkStep =>
            /\ err' # "AttributeError"
            /\ ~CrowdedStudy =>
                  /\ err' = Reconciled.err
                  /\ err' = "none" => remote' = Reconciled.remote
            /\ (CrowdedStudy /\ fail = NoFail) =>
                  /\ Reconciled.remote.folders \subseteq remote'.folders
                  /\ DOMAIN Reconciled.remote.files \subseteq DOMAIN remote'.files
                  /\ \A q \in (remote'.folders \ Reconciled.remote.folders)
                                \cup (DOMAIN remote'.files \ DOMAIN Reconciled.remote.files) :
                        \E p \in BuiltFolders :
                            /\ rgx_study(EntryName(p)) /\ item_count(p) >= StudyItemLimit
                            /\ IsPrefix(p, q) /\ q # p
      ]_vars

\* a verbose walk that deleted, created a folder and uploaded into it has completed
\* over a tree with a study directory below the limit
C25_Witness ==
    /\ pc = "walked"
    /\ ~CrowdedStudy
    /\ \E p \in BuiltFolders : rgx_study(EntryName(p))
    /\ \A t \in {"Created subFolder", "Created subFile"} :
          \E i \in 1..Len(out) : out[i].kind = "walker" /\ out[i].text = t
    /\ \E f \in DOMAIN remote.files : Len(f) >= 2 /\ f \in DOMAIN local.files

\* a walk has completed over a tree with a crowded study directory that holds a file
C25_WitnessCrowded ==
    /\ pc = "walked"
    /\ \E f \in DOMAIN remote.files :
          /\ rgx_study(EntryName(Parent(f)))
          /\ item_count(Parent(f)) >= StudyItemLimit

====
